---- MODULE Spec2Model ----
(***************************************************************************)
(* Lab_5/main.py: a Streamlit chat page.  Every user event re-executes the *)
(* script top to bottom against the session's st.session_state; the script *)
(* asks the backend (run_llm2) when the prompt box is non-empty, appends   *)
(* the exchange to three logs and replays the logs.                        *)
(*                                                                         *)
(* Python str values are sequences of one-character strings, so that       *)
(* concatenation, sorting and formatting are computed, not assumed.        *)
(***************************************************************************)
EXTENDS Integers, Sequences, FiniteSets, TLC

\* ------------------------------------------------------------------------
\* Bounds of the model
\* ------------------------------------------------------------------------

\* user events are accepted while fewer than MaxCalls backend calls were made
MaxCalls == 2

\* longest stored history that the display loop is applied to on its own
MaxLogLen == 2

\* backend calls each of the concurrent sessions may make
MaxSessionAsks == 2

\* longest source identifier that only repeats the letter "a"
MaxIdLen == 2

\* ------------------------------------------------------------------------
\* Python strings
\* ------------------------------------------------------------------------

\* code points of the characters that occur (str comparison is by code point)
ord ==
    ("\n" :> 10) @@ (" " :> 32) @@ ("'" :> 39) @@ ("," :> 44) @@ ("-" :> 45) @@
    ("." :> 46) @@ ("/" :> 47) @@ ("0" :> 48) @@ ("1" :> 49) @@ ("2" :> 50) @@
    ("3" :> 51) @@ ("4" :> 52) @@ ("5" :> 53) @@ ("6" :> 54) @@ ("7" :> 55) @@
    ("8" :> 56) @@ ("9" :> 57) @@ (":" :> 58) @@ ("?" :> 63) @@ ("I" :> 73) @@
    ("N" :> 78) @@ ("S" :> 83) @@ ("U" :> 85) @@ ("[" :> 91) @@ ("]" :> 93) @@
    ("a" :> 97) @@ ("b" :> 98) @@ ("c" :> 99) @@ ("d" :> 100) @@ ("e" :> 101) @@
    ("g" :> 103) @@ ("h" :> 104) @@ ("i" :> 105) @@ ("k" :> 107) @@
    ("l" :> 108) @@ ("n" :> 110) @@ ("o" :> 111) @@ ("p" :> 112) @@
    ("q" :> 113) @@ ("r" :> 114) @@ ("s" :> 115) @@ ("t" :> 116) @@
    ("u" :> 117) @@ ("w" :> 119) @@ ("y" :> 121)

\* s < t on Python str: lexicographic by code point, a proper prefix is smaller
RECURSIVE StrLess(_, _)
StrLess(s, t) ==
    IF t = <<>> THEN FALSE
    ELSE IF s = <<>> THEN TRUE
    ELSE IF s[1] = t[1] THEN StrLess(Tail(s), Tail(t))
    ELSE ord[s[1]] < ord[t[1]]

\* sorted(list(source_urls), reverse=True)
RECURSIVE sorted_descending(_)
sorted_descending(S) ==
    IF S = {} THEN <<>>
    ELSE LET greatest == CHOOSE x \in S : \A y \in S \ {x} : StrLess(y, x)
         IN  <<greatest>> \o sorted_descending(S \ {greatest})

\* sorted(list(source_urls)): the elements of a set of str in ascending order
RECURSIVE sorted(_)
sorted(S) ==
    IF S = {} THEN <<>>
    ELSE LET least == CHOOSE x \in S : \A y \in S \ {x} : StrLess(x, y)
         IN  <<least>> \o sorted(S \ {least})

\* sep.join(parts)
RECURSIVE join(_, _)
join(sep, parts) ==
    IF parts = <<>> THEN <<>>
    ELSE IF Len(parts) = 1 THEN parts[1]
    ELSE parts[1] \o sep \o join(sep, Tail(parts))

Digits == <<"0", "1", "2", "3", "4", "5", "6", "7", "8", "9">>

\* str(n) of an int: decimal digits, most significant first, "-" when negative
RECURSIVE IntToStr(_)
IntToStr(n) ==
    IF n < 0 THEN <<"-">> \o IntToStr(0 - n)
    ELSE IF n < 10 THEN <<Digits[n + 1]>>
    ELSE IntToStr(n \div 10) \o <<Digits[(n % 10) + 1]>>

\* ------------------------------------------------------------------------
\* Python values
\* ------------------------------------------------------------------------

PyStr(s)  == [type |-> "str", val |-> s]
PyInt(n)  == [type |-> "int", val |-> n]
PyNone    == [type |-> "NoneType"]
PyList(l) == [type |-> "list", val |-> l]

\* a langchain Document: metadata is a dict, here with at most the key "source"
Document(md) == [type |-> "Document", metadata |-> md]

\* isinstance(v, str)
isinstance_str(v) == v.type = "str"

\* str(v) for the values a backend answer can hold
RECURSIVE str(_)
str(v) ==
    CASE v.type = "str"      -> v.val
      [] v.type = "int"      -> IntToStr(v.val)
      [] v.type = "NoneType" -> <<"N", "o", "n", "e">>
      [] v.type = "list"     ->
            <<"[">> \o join(<<",", " ">>, [i \in 1..Len(v.val) |-> str(v.val[i])])
                    \o <<"]">>

\* d.get(key, default) on a dict (a function whose domain is the keys present)
get(d, key, default) == IF key \in DOMAIN d THEN d[key] ELSE default

EmptyDict == [k \in {} |-> PyNone]

\* ------------------------------------------------------------------------
\* Helper functions of the page
\* ------------------------------------------------------------------------

\* create_sources_string with the test "if not any(source_urls)"
create_sources_string_any(source_urls) ==
    IF \A u \in source_urls : u = <<>> THEN <<>>
    ELSE LET sources_list == sorted(source_urls)
             lines == [i \in 1..Len(sources_list) |->
                          IntToStr(i) \o <<".", " ">> \o sources_list[i]]
         IN  <<"s", "o", "u", "r", "c", "e", "s", ":", "\n">>
                 \o join(<<"\n">>, lines)

\* create_sources_string(source_urls)
create_sources_string(source_urls) ==
    IF source_urls = {} THEN <<>>
    ELSE LET sources_list == sorted(source_urls)
             lines == [i \in 1..Len(sources_list) |->
                          IntToStr(i) \o <<".", " ">> \o sources_list[i]]
         IN  <<"s", "o", "u", "r", "c", "e", "s", ":", "\n">>
                 \o join(<<"\n">>, lines)

\* ------------------------------------------------------------------------
\* Inputs: what the user types and what run_llm2 returns
\* ------------------------------------------------------------------------

Q1 == <<"q", "1">>
Q2 == <<"q", "2">>
Queries == {Q1, Q2}

Hi     == <<"h", "i">>
DocsA  == <<"d", "o", "c", "s", "/", "a">>
DocsB  == <<"d", "o", "c", "s", "/", "b">>

DocA        == Document([k \in {"source"} |-> DocsA])
DocB        == Document([k \in {"source"} |-> DocsB])
DocNoSource == Document(EmptyDict)

\* values of the "answer" field: a str, an int, a nested structure
AnswerValues == {PyStr(Hi), PyInt(0 - 42), PyList(<<PyInt(1), PyInt(2)>>)}

\* values of the "context" field: lists of documents (empty, with a repeated
\* source, with a document lacking a source), None, a list holding an item
\* that has no metadata attribute
ContextValues ==
    { PyList(<<>>),
      PyList(<<DocA, DocA, DocB>>),
      PyList(<<DocB, DocNoSource>>),
      PyNone,
      PyList(<<DocA, PyStr(Hi)>>) }

\* the dicts run_llm2 can return: each field present or absent
ResponseDicts ==
    { [k \in {"answer", "context"} |-> IF k = "answer" THEN a ELSE c] :
          a \in AnswerValues, c \in ContextValues }
    \cup { [k \in {"answer"} |-> a] : a \in AnswerValues }
    \cup { [k \in {"context"} |-> c] : c \in ContextValues }
    \cup { EmptyDict }

\* outcomes of the call run_llm2(...): it returns a dict or it raises
Outcomes ==
    { [raises |-> TRUE] } \cup { [raises |-> FALSE, dict |-> d] : d \in ResponseDicts }

\* ------------------------------------------------------------------------
\* The ask block, lines 112-120, as functions of the response dict
\* ------------------------------------------------------------------------

Fallback ==
    <<"S", "o", "r", "r", "y", ",", " ", "I", " ", "c", "o", "u", "l", "d", "n",
      "'", "t", " ", "g", "e", "n", "e", "r", "a", "t", "e", " ", "a", " ", "r",
      "e", "s", "p", "o", "n", "s", "e", ".">>

Unknown == <<"U", "n", "k", "n", "o", "w", "n">>

\* answer = response_dict.get("answer", "Sorry, ...")
answer_of(response_dict) == get(response_dict, "answer", PyStr(Fallback))

\* response_dict.get("context"), whose default is None
context_of_none(response_dict) == get(response_dict, "context", PyNone)

\* context = response_dict.get("context", [])
context_of(response_dict) == get(response_dict, "context", PyList(<<>>))

\* if not isinstance(answer, str): answer = str(answer)
coerce(a) == IF ~isinstance_str(a) THEN PyStr(str(a)) ELSE a

\* "for doc in context" raises TypeError unless context is iterable;
\* "doc.metadata" raises AttributeError on an item without that attribute
sources_raises(context) ==
    \/ context.type # "list"
    \/ \E i \in 1..Len(context.val) : context.val[i].type # "Document"

\* sources = set(doc.metadata.get("source", "Unknown") for doc in context)
sources_of(context) ==
    { get(context.val[i].metadata, "source", Unknown) : i \in 1..Len(context.val) }

\* f"{answer}\n{create_sources_string(sources)}": one newline only
format_response_one_newline(a, sources) ==
    PyStr(a.val \o <<"\n">> \o create_sources_string(sources))

\* formatted_response = f"{answer}\n\n{create_sources_string(sources)}"
format_response(a, sources) ==
    PyStr(a.val \o <<"\n", "\n">> \o create_sources_string(sources))

\* ------------------------------------------------------------------------
\* State
\* ------------------------------------------------------------------------

VARIABLES
    session_state,       \* st.session_state: dict from key to list
    box,                 \* text held by the prompt box in the browser
    widgets,             \* widget values the running script sees
    pc,                  \* position of the script run ("idle": no run)
    answer,              \* local of the run
    formatted_response,  \* local of the run
    rendered,            \* chat messages on the page after the last finished run
    uncaught,            \* the last run ended with an uncaught exception
    raised,              \* some run of the session ended with an uncaught exception
    reran,               \* the run was started by st.rerun()
    calls,               \* number of run_llm2 invocations so far
    questions,           \* number of questions the user submitted so far
    submitted,           \* number of questions submitted since the last clear
    last_call,           \* arguments and outcome of the last run_llm2 call
    asked                \* exchanges since the last clear whose ask reached line 122

\* several sessions of the page side by side
VARIABLES
    store,               \* st.session_state of every session
    spc,                 \* position of every session's script run
    sprompt,             \* text of every session's prompt box
    slocals,             \* locals answer, formatted_response of every session's run
    sasks,               \* number of backend calls every session has made
    actor                \* session that took the last step (0: none)

sessions_vars == <<store, spc, sprompt, slocals, sasks, actor>>

\* create_sources_string on its own
VARIABLES
    source_urls,         \* the argument
    sources_string       \* the result, once computed

formatter_vars == <<source_urls, sources_string>>

vars == <<session_state, box, widgets, pc, answer, formatted_response, rendered,
          uncaught, raised, reran, calls, questions, submitted, last_call, asked,
          sessions_vars, formatter_vars>>

page_vars == <<session_state, box, widgets, pc, answer, formatted_response,
               rendered, uncaught, raised, reran, calls, questions, submitted,
               last_call, asked>>

Sessions == {1, 2}

SessionsInit ==
    /\ store = [s \in Sessions |-> [k \in {} |-> <<>>]]
    /\ spc = [s \in Sessions |-> "init"]
    /\ sprompt = [s \in Sessions |-> [box |-> <<>>, value |-> <<>>]]
    /\ slocals = [s \in Sessions |-> <<>>]
    /\ sasks = [s \in Sessions |-> 0]
    /\ actor = 0

FormatterIdle ==
    /\ source_urls = {}
    /\ sources_string = [type |-> "unbound"]

Keys == {"chat_answers_history", "user_prompt_history", "chat_history"}

Unbound == [type |-> "unbound"]
NoCall  == [made |-> FALSE]

\* a local read after its assignment, or the empty list before the key exists
log(key) == get(session_state, key, <<>>)

Init ==
    /\ session_state = EmptyDict
    /\ box = <<>>
    /\ widgets = [prompt |-> <<>>, clear |-> FALSE]
    /\ pc = "sidebar"
    /\ answer = Unbound
    /\ formatted_response = Unbound
    /\ rendered = <<>>
    /\ uncaught = FALSE
    /\ raised = FALSE
    /\ reran = FALSE
    /\ calls = 0
    /\ questions = 0
    /\ submitted = 0
    /\ last_call = NoCall
    /\ asked = <<>>
    /\ SessionsInit
    /\ FormatterIdle

\* ------------------------------------------------------------------------
\* User events: each starts a run of the script from the top
\* ------------------------------------------------------------------------

StartRun(prompt, clear) ==
    /\ pc = "idle"
    /\ calls < MaxCalls
    /\ widgets' = [prompt |-> prompt, clear |-> clear]
    /\ pc' = "sidebar"
    /\ uncaught' = FALSE
    /\ reran' = FALSE
    /\ UNCHANGED <<session_state, answer, formatted_response, rendered, calls,
                   last_call, raised, asked,
                   sessions_vars, formatter_vars>>

\* the user enters a new text in the prompt box (text_input reruns on change)
SubmitPrompt(text) ==
    /\ text # box
    /\ box' = text
    /\ questions' = IF text # <<>> THEN questions + 1 ELSE questions
    /\ submitted' = IF text # <<>> THEN submitted + 1 ELSE submitted
    /\ StartRun(text, FALSE)

\* the user presses "Clear Chat History"; the prompt box keeps its text
ClickClear ==
    /\ box' = box
    /\ UNCHANGED <<questions, submitted>>
    /\ StartRun(box, TRUE)

\* the page is re-executed with unchanged widgets (Rerun in the page menu)
Rerun ==
    /\ box' = box
    /\ UNCHANGED <<questions, submitted>>
    /\ StartRun(box, FALSE)

\* ------------------------------------------------------------------------
\* Steps of a script run
\* ------------------------------------------------------------------------

\* a clear that removes the prompt log only
clear_prompts_only(state) ==
    [k \in DOMAIN state \ {"user_prompt_history"} |-> state[k]]

\* a clear that removes the two displayed logs and keeps chat_history
clear_displayed_only(state) ==
    [k \in DOMAIN state \ {"user_prompt_history", "chat_answers_history"} |->
        state[k]]

\* st.session_state.clear()
clear(state) == EmptyDict

\* lines 84-86: the button was pressed: clear the state and st.rerun().
\* The rerun starts the script again with the button released; whether the
\* prompt box's value survives the interrupted run is up to the Streamlit
\* runtime, so the rerun sees either the text or the widget's default.
ClearChatHistory ==
    /\ pc = "sidebar"
    /\ widgets.clear
    /\ session_state' = clear(session_state)
    /\ \E p \in {widgets.prompt, <<>>} : widgets' = [prompt |-> p, clear |-> FALSE]
    /\ reran' = TRUE
    /\ asked' = <<>>
    /\ submitted' = 0
    /\ pc' = "sidebar"
    /\ UNCHANGED <<box, answer, formatted_response, rendered, uncaught, calls,
                   questions, last_call, raised,
                   sessions_vars, formatter_vars>>

\* line 84: the button was not pressed
Sidebar ==
    /\ pc = "sidebar"
    /\ ~widgets.clear
    /\ pc' = "init"
    /\ UNCHANGED <<session_state, box, widgets, answer, formatted_response,
                   rendered, uncaught, reran, calls, questions, submitted,
                   last_call, raised, asked,
                   sessions_vars, formatter_vars>>

\* lines 91-96: every missing key is set to a new empty list
initialize(state) == [k \in Keys |-> IF k \in DOMAIN state THEN state[k] ELSE <<>>]

InitState ==
    /\ pc = "init"
    /\ session_state' = initialize(session_state)
    /\ pc' = "prompt"
    /\ UNCHANGED <<box, widgets, answer, formatted_response, rendered, uncaught,
                   reran, calls, questions, submitted, last_call, raised, asked,
                   sessions_vars, formatter_vars>>

\* line 104: the prompt is empty, the ask block is skipped
SkipAsk ==
    /\ pc = "prompt"
    /\ widgets.prompt = <<>>
    /\ pc' = "display"
    /\ UNCHANGED <<session_state, box, widgets, answer, formatted_response,
                   rendered, uncaught, reran, calls, questions, submitted,
                   last_call, raised, asked,
                   sessions_vars, formatter_vars>>

\* an exception leaves the script: the run ends, the page shows the traceback
\* in place of the chat history, the session stays usable
Abort ==
    /\ pc' = "idle"
    /\ uncaught' = TRUE
    /\ raised' = TRUE
    /\ rendered' = <<>>
    /\ answer' = Unbound
    /\ formatted_response' = Unbound

\* the ask block with line 123 moved before the backend call
Ask_prompt_first(outcome) ==
    /\ pc = "prompt"
    /\ widgets.prompt # <<>>
    /\ calls' = calls + 1
    /\ last_call' = [made |-> TRUE, query |-> widgets.prompt,
                     chat_history |-> session_state["chat_history"],
                     outcome |-> outcome]
    /\ session_state' = [session_state EXCEPT
                            !["user_prompt_history"] = Append(@, PyStr(widgets.prompt))]
    /\ IF outcome.raises
       THEN Abort /\ asked' = asked
       ELSE LET a       == coerce(answer_of(outcome.dict))
                context == context_of(outcome.dict)
            IN  IF sources_raises(context)
                THEN Abort /\ asked' = asked
                ELSE /\ answer' = a
                     /\ formatted_response' = format_response(a, sources_of(context))
                     /\ asked' = Append(asked, [query |-> widgets.prompt,
                                                response |-> outcome.dict])
                     /\ pc' = "append_answer"
                     /\ UNCHANGED <<rendered, uncaught, raised>>
    /\ UNCHANGED <<box, widgets, reran, questions, submitted,
                   sessions_vars, formatter_vars>>

\* lines 104-120: call run_llm2 with the prompt and the current chat_history,
\* then normalise its response
Ask(outcome) ==
    /\ pc = "prompt"
    /\ widgets.prompt # <<>>
    /\ calls' = calls + 1
    /\ last_call' = [made |-> TRUE, query |-> widgets.prompt,
                     chat_history |-> session_state["chat_history"],
                     outcome |-> outcome]
    /\ IF outcome.raises
       THEN Abort /\ asked' = asked
       ELSE LET a       == coerce(answer_of(outcome.dict))
                context == context_of(outcome.dict)
            IN  IF sources_raises(context)
                THEN Abort /\ asked' = asked
                ELSE /\ answer' = a
                     /\ formatted_response' = format_response(a, sources_of(context))
                     /\ asked' = Append(asked, [query |-> widgets.prompt,
                                                response |-> outcome.dict])
                     /\ pc' = "append_prompt"
                     /\ UNCHANGED <<rendered, uncaught, raised>>
    /\ UNCHANGED <<session_state, box, widgets, reran, questions, submitted,
                   sessions_vars, formatter_vars>>

\* state[key].append(value)
append(state, key, value) == [state EXCEPT ![key] = Append(@, value)]

AppendStep(from, to, key, value) ==
    /\ pc = from
    /\ session_state' = append(session_state, key, value)
    /\ pc' = to
    /\ UNCHANGED <<box, widgets, answer, formatted_response, rendered, uncaught,
                   reran, calls, questions, submitted, last_call, raised, asked,
                   sessions_vars, formatter_vars>>

\* line 123
AppendPrompt ==
    AppendStep("append_prompt", "append_answer", "user_prompt_history",
               PyStr(widgets.prompt))

\* line 124 left out
AppendAnswer_skipped ==
    /\ pc = "append_answer"
    /\ pc' = "append_human"
    /\ UNCHANGED <<session_state, box, widgets, answer, formatted_response,
                   rendered, uncaught, reran, calls, questions, submitted,
                   last_call, raised, asked,
                   sessions_vars, formatter_vars>>

\* line 124 appending the answer as the backend returned it
AppendAnswer_raw ==
    AppendStep("append_answer", "append_human", "chat_answers_history",
               answer_of(last_call.outcome.dict))

\* line 124
AppendAnswer ==
    AppendStep("append_answer", "append_human", "chat_answers_history",
               formatted_response)

\* line 125
AppendHuman ==
    AppendStep("append_human", "append_ai", "chat_history",
               <<"human", PyStr(widgets.prompt)>>)

\* line 126 appending the display string
AppendAi_formatted ==
    AppendStep("append_ai", "display", "chat_history", <<"ai", formatted_response>>)

\* line 126
AppendAi ==
    AppendStep("append_ai", "display", "chat_history", <<"ai", answer>>)

\* zip(xs, ys): pairs up to the shorter length
zip(xs, ys) ==
    LET n == IF Len(xs) < Len(ys) THEN Len(xs) ELSE Len(ys)
    IN  [i \in 1..n |-> <<xs[i], ys[i]>>]

\* type(v).__name__
type_name(v) ==
    CASE v.type = "str"      -> <<"s", "t", "r">>
      [] v.type = "int"      -> <<"i", "n", "t">>
      [] v.type = "NoneType" -> <<"N", "o", "n", "e", "T", "y", "p", "e">>
      [] v.type = "list"     -> <<"l", "i", "s", "t">>

\* f"Invalid response format found in history: {type(generated_response)}"
invalid_format_message(v) ==
    <<"I", "n", "v", "a", "l", "i", "d", " ", "r", "e", "s", "p", "o", "n", "s",
      "e", " ", "f", "o", "r", "m", "a", "t", " ", "f", "o", "u", "n", "d", " ",
      "i", "n", " ", "h", "i", "s", "t", "o", "r", "y", ":", " ">>
        \o <<"<", "c", "l", "a", "s", "s", " ", "'">> \o type_name(v) \o <<"'", ">">>

\* lines 135-144: the two chat messages of one pair
chat_messages(user_query, generated_response) ==
    [user |-> user_query,
     assistant |-> IF isinstance_str(generated_response)
                   THEN [kind |-> "write", body |-> generated_response]
                   ELSE [kind |-> "error",
                         body |-> PyStr(invalid_format_message(generated_response))]]

\* a display loop that ends at the first entry that is not a str
display_until_malformed(state) ==
    LET pairs == zip(state["user_prompt_history"], state["chat_answers_history"])
        good  == { n \in 0..Len(pairs) :
                      \A i \in 1..n : isinstance_str(pairs[i][2]) }
        stop  == CHOOSE n \in good : \A m \in good : m <= n
    IN  [i \in 1..stop |-> chat_messages(pairs[i][1], pairs[i][2])]

\* lines 130-144: replay the history
display(state) ==
    IF state["chat_answers_history"] # <<>>
    THEN LET pairs == zip(state["user_prompt_history"], state["chat_answers_history"])
         IN  [i \in 1..Len(pairs) |-> chat_messages(pairs[i][1], pairs[i][2])]
    ELSE <<>>

Display ==
    /\ pc = "display"
    /\ rendered' = display(session_state)
    /\ pc' = "idle"
    /\ answer' = Unbound
    /\ formatted_response' = Unbound
    /\ UNCHANGED <<session_state, box, widgets, uncaught, reran, calls, questions, submitted,
                   last_call, raised, asked,
                   sessions_vars, formatter_vars>>

Next ==
    \/ \E text \in Queries \cup {<<>>} : SubmitPrompt(text)
    \/ ClickClear
    \/ Rerun
    \/ ClearChatHistory
    \/ Sidebar
    \/ InitState
    \/ SkipAsk
    \/ \E outcome \in Outcomes : Ask(outcome)
    \/ AppendPrompt
    \/ AppendAnswer
    \/ AppendHuman
    \/ AppendAi
    \/ Display

Spec == Init /\ [][Next]_vars

\* ------------------------------------------------------------------------
\* The display loop on an arbitrary stored history
\* ------------------------------------------------------------------------

\* entries a stored Answer Log can hold: display strings and other values
HistoryEntries ==
    { PyStr(Hi \o <<"\n", "\n">>), PyInt(0 - 42), PyNone,
      PyList(<<PyInt(1), PyInt(2)>>) }

\* a session whose script run has reached line 130 with a stored history of
\* n pairs, n up to MaxLogLen
RenderInit ==
    /\ \E n \in 0..MaxLogLen :
          \E prompts \in [1..n -> {PyStr(q) : q \in Queries}],
             answers \in [1..n -> HistoryEntries] :
              session_state = [k \in Keys |->
                                  CASE k = "user_prompt_history"  -> prompts
                                    [] k = "chat_answers_history" -> answers
                                    [] k = "chat_history"         -> <<>>]
    /\ box = <<>>
    /\ widgets = [prompt |-> <<>>, clear |-> FALSE]
    /\ pc = "display"
    /\ answer = Unbound
    /\ formatted_response = Unbound
    /\ rendered = <<>>
    /\ uncaught = FALSE
    /\ raised = FALSE
    /\ reran = FALSE
    /\ calls = 0
    /\ questions = 0
    /\ submitted = 0
    /\ last_call = NoCall
    /\ asked = <<>>
    /\ SessionsInit
    /\ FormatterIdle

SpecRender == RenderInit /\ [][Display]_vars

\* ------------------------------------------------------------------------
\* create_sources_string on an arbitrary set of source identifiers
\* ------------------------------------------------------------------------

\* the strings "", "a", "aa", ... of length up to n
Words(n) == { [i \in 1..k |-> "a"] : k \in 0..n }

\* source identifiers: the words above (the empty string among them), the
\* sentinel of line 119, document paths and a prefix of them, other words
SourceIds ==
    Words(MaxIdLen)
        \cup { Unknown, DocsA, DocsB, <<"d", "o", "c", "s">>,
               <<"b">>, <<"a", "b">>, <<"b", "a">> }

FormatInit ==
    /\ source_urls \in SUBSET SourceIds
    /\ sources_string = [type |-> "unbound"]
    /\ session_state = EmptyDict
    /\ box = <<>>
    /\ widgets = [prompt |-> <<>>, clear |-> FALSE]
    /\ pc = "sidebar"
    /\ answer = Unbound
    /\ formatted_response = Unbound
    /\ rendered = <<>>
    /\ uncaught = FALSE
    /\ raised = FALSE
    /\ reran = FALSE
    /\ calls = 0
    /\ questions = 0
    /\ submitted = 0
    /\ last_call = NoCall
    /\ asked = <<>>
    /\ SessionsInit

\* the call create_sources_string(source_urls)
Format ==
    /\ sources_string.type = "unbound"
    /\ sources_string' = PyStr(create_sources_string(source_urls))
    /\ UNCHANGED <<source_urls, page_vars, sessions_vars>>

SpecFormat == FormatInit /\ [][Format]_vars

\* ------------------------------------------------------------------------
\* Concurrent sessions: every session runs the script in its own thread
\* against st.session_state; the steps of different sessions interleave
\* ------------------------------------------------------------------------

\* one module-level state used by every session
owner_shared(s) == 1

\* st.session_state inside a run of session s: the state of that session
owner(s) == s

\* what run_llm2 does in these sessions: it raises, or returns one of two dicts
SessionOutcomes ==
    { [raises |-> TRUE],
      [raises |-> FALSE, dict |-> EmptyDict],
      [raises |-> FALSE,
       dict |-> [k \in {"answer", "context"} |->
                    IF k = "answer" THEN PyStr(Hi) ELSE PyList(<<DocA, DocA, DocB>>)]] }

SessionStep(s, from, to) ==
    /\ spc[s] = from
    /\ spc' = [spc EXCEPT ![s] = to]
    /\ actor' = s
    /\ UNCHANGED <<page_vars, formatter_vars>>

\* line 102: a new text in the prompt box of session s starts a run; the
\* button is not pressed, the run goes on to line 91
S_Submit(s, text) ==
    /\ sasks[s] < MaxSessionAsks
    /\ text # sprompt[s].box
    /\ SessionStep(s, "idle", "init")
    /\ sprompt' = [sprompt EXCEPT ![s] = [box |-> text, value |-> text]]
    /\ UNCHANGED <<store, slocals, sasks>>

\* lines 84-86 in session s: the button is pressed, the state is cleared and
\* the script is rerun
S_Clear(s) ==
    /\ sasks[s] < MaxSessionAsks
    /\ SessionStep(s, "idle", "init")
    /\ store' = [store EXCEPT ![owner(s)] = clear(@)]
    /\ \E p \in {sprompt[s].box, <<>>} :
          sprompt' = [sprompt EXCEPT ![s] = [box |-> sprompt[s].box, value |-> p]]
    /\ UNCHANGED <<slocals, sasks>>

\* lines 91-96 in session s
S_Init(s) ==
    /\ SessionStep(s, "init", "prompt")
    /\ store' = [store EXCEPT ![owner(s)] = initialize(@)]
    /\ UNCHANGED <<sprompt, slocals, sasks>>

\* line 104 in session s: empty prompt
S_Skip(s) ==
    /\ sprompt[s].value = <<>>
    /\ SessionStep(s, "prompt", "display")
    /\ UNCHANGED <<store, sprompt, slocals, sasks>>

\* lines 104-120 in session s
S_Ask(s, outcome) ==
    /\ sprompt[s].value # <<>>
    /\ sasks' = [sasks EXCEPT ![s] = @ + 1]
    /\ IF outcome.raises
       THEN /\ SessionStep(s, "prompt", "idle")
            /\ UNCHANGED slocals
       ELSE LET a == coerce(answer_of(outcome.dict))
                context == context_of(outcome.dict)
            IN  /\ SessionStep(s, "prompt", "append_prompt")
                /\ slocals' = [slocals EXCEPT ![s] =
                        [answer |-> a,
                         formatted_response |-> format_response(a, sources_of(context))]]
    /\ UNCHANGED <<store, sprompt>>

S_AppendStep(s, from, to, key, value) ==
    /\ SessionStep(s, from, to)
    /\ store' = [store EXCEPT ![owner(s)] = append(@, key, value)]
    /\ UNCHANGED <<sprompt, slocals, sasks>>

\* line 123 in session s
S_AppendPrompt(s) ==
    S_AppendStep(s, "append_prompt", "append_answer", "user_prompt_history",
                 PyStr(sprompt[s].value))

\* line 124 in session s
S_AppendAnswer(s) ==
    S_AppendStep(s, "append_answer", "append_human", "chat_answers_history",
                 slocals[s].formatted_response)

\* line 125 in session s
S_AppendHuman(s) ==
    S_AppendStep(s, "append_human", "append_ai", "chat_history",
                 <<"human", PyStr(sprompt[s].value)>>)

\* line 126 in session s
S_AppendAi(s) ==
    S_AppendStep(s, "append_ai", "display", "chat_history",
                 <<"ai", slocals[s].answer>>)

\* lines 130-144 in session s: the loop reads the logs, the run ends
S_Display(s) ==
    /\ SessionStep(s, "display", "idle")
    /\ slocals' = [slocals EXCEPT ![s] = <<>>]
    /\ UNCHANGED <<store, sprompt, sasks>>

SessionsNext ==
    \E s \in Sessions :
        \/ \E text \in Queries : S_Submit(s, text)
        \/ S_Clear(s)
        \/ S_Init(s)
        \/ S_Skip(s)
        \/ \E outcome \in SessionOutcomes : S_Ask(s, outcome)
        \/ S_AppendPrompt(s)
        \/ S_AppendAnswer(s)
        \/ S_AppendHuman(s)
        \/ S_AppendAi(s)
        \/ S_Display(s)

SpecSessions == Init /\ [][SessionsNext]_vars

\* ------------------------------------------------------------------------
\* Properties
\* ------------------------------------------------------------------------

PromptLog   == log("user_prompt_history")
AnswerLog   == log("chat_answers_history")
TurnHistory == log("chat_history")

Last(seq) == seq[Len(seq)]

\* C1: at rest between exchanges the Prompt Log and the Answer Log have equal
\* length and the Turn History has twice that length
C1_LogsBalanced ==
    pc = "idle" =>
        /\ Len(PromptLog) = Len(AnswerLog)
        /\ Len(TurnHistory) = 2 * Len(PromptLog)

\* two exchanges were recorded and the session is at rest
C1_Witness ==
    /\ pc = "idle"
    /\ Len(PromptLog) = 2
    /\ Len(TurnHistory) = 4

\* C2: after Clear Chat History the session state is the one at construction
\* (no key), and the initialization that follows leaves all three logs empty,
\* whatever they held before
C2_ResetRestoresConstruction ==
    reran =>
        /\ pc \in {"sidebar", "init"} => session_state = EmptyDict
        /\ pc = "prompt" => session_state = [k \in Keys |-> <<>>]

\* a clear of a session whose history was on the page has been initialized again
C2_Witness ==
    /\ reran
    /\ pc = "prompt"
    /\ rendered # <<>>
    /\ TurnHistory = <<>>

\* the Turn History that the exchanges es produce: (human, q), (ai, a) each
RECURSIVE Turns(_)
Turns(es) ==
    IF es = <<>> THEN <<>>
    ELSE <<  <<"human", PyStr(es[1].query)>>,
             <<"ai", coerce(answer_of(es[1].response))>>  >> \o Turns(Tail(es))

\* C3: after n asks without a clear the Turn History is (human, q1), (ai, a1),
\* ..., (human, qn), (ai, an) with the coerced answer texts, and no ai entry is
\* the display string of its exchange
C3_TurnHistoryOrder ==
    pc = "idle" =>
        /\ TurnHistory = Turns(asked)
        /\ \A i \in 1..Len(asked) :
              /\ TurnHistory[2 * i - 1][1] = "human"
              /\ TurnHistory[2 * i][1] = "ai"
              /\ TurnHistory[2 * i][2] # AnswerLog[i]

\* two asks with different queries, the first answered by a non-string
C3_Witness ==
    /\ pc = "idle"
    /\ Len(asked) = 2
    /\ asked[1].query # asked[2].query
    /\ "answer" \in DOMAIN asked[1].response
    /\ asked[1].response["answer"].type = "int"
    /\ Len(TurnHistory) = 4

\* the response dict of the last backend call that returned
LastDict == last_call.outcome.dict

Returned == last_call.made /\ ~last_call.outcome.raises

\* the run in progress is an ask whose Answer Log entry has been appended
Appended ==
    /\ pc \in {"append_human", "append_ai", "display"}
    /\ answer.type # "unbound"

\* C4: the backend is invoked once per submitted question and no exchange is
\* recorded without a new question: a run started by anything else makes no
\* call; stated for sessions in which no exception has occurred
C4_OneCallPerQuestion ==
    ~raised =>
        /\ pc = "idle" => calls = questions
        /\ Len(asked) <= submitted

\* C5: no exchange is on the page between a clear (or the start) and the next
\* new question, the first page after a clear is empty, and the Prompt Log is
\* never empty while another log holds entries; stated for sessions in which
\* no exception has occurred
C5_ResetShowsEmptyHistory ==
    ~raised =>
        /\ (pc = "idle" /\ submitted = 0) => rendered = <<>>
        /\ (pc = "idle" /\ reran) => rendered = <<>>
        /\ PromptLog = <<>> => (AnswerLog = <<>> /\ TurnHistory = <<>>)

\* the items of a context field, none when the field is absent
ItemsOf(d) == IF "context" \in DOMAIN d THEN d["context"].val ELSE <<>>

\* the source identifier an item contributes
IdOf(item) ==
    IF "source" \in DOMAIN item.metadata THEN item.metadata["source"] ELSE Unknown

\* number of places at which the string part occurs in the string whole
Occurrences(part, whole) ==
    Cardinality({ i \in 1..(Len(whole) - Len(part) + 1) :
                     SubSeq(whole, i, i + Len(part) - 1) = part })

\* C6: the Answer Log entry of an ask is the coerced answer text, a blank
\* line, and format_sources of the set of source identifiers of the context
\* ("Unknown" for an item without source); every identifier occurs once in it;
\* an empty context gives the text and the blank line only
C6_AnswerLogEntry ==
    Appended =>
        LET text  == coerce(answer_of(LastDict)).val
            items == ItemsOf(LastDict)
            ids   == { IdOf(items[i]) : i \in 1..Len(items) }
            entry == Last(AnswerLog)
        IN  /\ entry = PyStr(text \o <<"\n", "\n">> \o create_sources_string(ids))
            /\ \A id \in ids : Occurrences(id, entry.val) = 1
            /\ items = <<>> => entry.val = text \o <<"\n", "\n">>
            /\ (answer_of(LastDict) = PyStr(Hi) /\ items = <<DocA, DocA, DocB>>) =>
                  entry.val = <<"h", "i", "\n", "\n",
                                "s", "o", "u", "r", "c", "e", "s", ":", "\n",
                                "1", ".", " ", "d", "o", "c", "s", "/", "a", "\n",
                                "2", ".", " ", "d", "o", "c", "s", "/", "b">>

\* an entry was appended for a context that names docs/a twice
C6_Witness ==
    /\ Appended
    /\ ItemsOf(LastDict) = <<DocA, DocA, DocB>>
    /\ Len(AnswerLog) = 2

\* the answer field of d is missing or holds a non-string
OddAnswer(d) == "answer" \notin DOMAIN d \/ d["answer"].type # "str"

\* C7: an ask whose response has a missing or non-string answer does not raise,
\* every Answer Log entry is a string, and a missing answer is recorded as the
\* fallback text
C7_OddAnswerNeverRaises ==
    /\ (Returned /\ OddAnswer(LastDict)) => ~uncaught
    /\ \A i \in 1..Len(AnswerLog) : isinstance_str(AnswerLog[i])
    /\ (Appended /\ "answer" \notin DOMAIN LastDict) =>
          SubSeq(Last(AnswerLog).val, 1, Len(Fallback)) = Fallback

\* the context field of d is present but is no sequence of items with metadata
MalformedContext(d) ==
    /\ "context" \in DOMAIN d
    /\ \/ d["context"].type # "list"
       \/ \E i \in 1..Len(d["context"].val) : d["context"].val[i].type # "Document"

\* C8: an ask whose response has a malformed context does not raise
C8_MalformedContextNeverRaises ==
    (Returned /\ MalformedContext(LastDict)) => ~uncaught

\* C9: when run_llm2 raises, no exception leaves the script run and the
\* failure is recorded as an answer
C9_BackendFailureSurfaced ==
    (last_call.made /\ last_call.outcome.raises /\ pc = "idle") =>
        /\ ~uncaught
        /\ AnswerLog # <<>>

\* C10: an ask whose response has no context field does not raise, its entry
\* is the answer text and the blank line with no citation block, and the
\* exchange is in all three logs
C10_AbsentContext ==
    (Returned /\ "context" \notin DOMAIN LastDict) =>
        /\ ~uncaught
        /\ pc = "display" /\ answer.type # "unbound" =>
              /\ Last(AnswerLog) = PyStr(answer.val \o <<"\n", "\n">>)
              /\ Last(PromptLog) = PyStr(last_call.query)
              /\ TurnHistory[Len(TurnHistory) - 1] = <<"human", PyStr(last_call.query)>>
              /\ Last(TurnHistory) = <<"ai", answer>>
              /\ Len(AnswerLog) = Len(PromptLog)
              /\ Len(AnswerLog) = Len(last_call.chat_history) \div 2 + 1

\* an ask without context field, and without answer field, reached the display
C10_Witness ==
    /\ pc = "display"
    /\ answer.type # "unbound"
    /\ LastDict = EmptyDict
    /\ Len(AnswerLog) = 2

\* C11: the display loop shows one pair per stored exchange, in log order:
\* pair i is Prompt Log[i] with Answer Log[i], and with the error message
\* naming the entry's type where Answer Log[i] is not a string; the loop goes
\* on after such an entry
C11_RenderPairsInOrder ==
    (pc = "idle" /\ ~uncaught) =>
        /\ Len(rendered) = Len(PromptLog)
        /\ Len(rendered) = Len(AnswerLog)
        /\ \A i \in 1..Len(rendered) :
              /\ rendered[i].user = PromptLog[i]
              /\ AnswerLog[i].type = "str" =>
                    rendered[i].assistant = [kind |-> "write", body |-> AnswerLog[i]]
              /\ AnswerLog[i].type # "str" =>
                    /\ rendered[i].assistant.kind = "error"
                    /\ AnswerLog[i].type = "int" =>
                          rendered[i].assistant.body.val =
                              <<"I", "n", "v", "a", "l", "i", "d", " ", "r", "e",
                                "s", "p", "o", "n", "s", "e", " ", "f", "o", "r",
                                "m", "a", "t", " ", "f", "o", "u", "n", "d", " ",
                                "i", "n", " ", "h", "i", "s", "t", "o", "r", "y",
                                ":", " ", "<", "c", "l", "a", "s", "s", " ", "'",
                                "i", "n", "t", "'", ">">>

\* a history whose first answer is not a string and whose second is was shown
C11_Witness ==
    /\ pc = "idle"
    /\ Len(rendered) = 2
    /\ AnswerLog[1].type = "int"
    /\ AnswerLog[2].type = "str"
    /\ PromptLog[1] # PromptLog[2]

\* the three logs of session t
LogsOf(t) == [k \in Keys |-> get(store[t], k, <<>>)]

\* C12: a step of one session leaves the Prompt Log, the Answer Log and the
\* Turn History of every other session as they were
C12_SessionsIsolated ==
    [][\A t \in Sessions : t # actor' => LogsOf(t)' = LogsOf(t)]_vars

\* both sessions are in the middle of their appends, each with a logged prompt
C12_Witness ==
    /\ spc[1] = "append_answer"
    /\ spc[2] = "append_human"
    /\ Len(LogsOf(1)["user_prompt_history"]) = 2
    /\ Len(LogsOf(2)["chat_answers_history"]) = 1

\* s precedes t in lexicographic order of code points
LexLess(s, t) ==
    \E k \in 0..Len(s) :
        /\ k <= Len(t)
        /\ SubSeq(s, 1, k) = SubSeq(t, 1, k)
        /\ \/ k = Len(s) /\ k < Len(t)
           \/ k < Len(s) /\ k < Len(t) /\ ord[s[k + 1]] < ord[t[k + 1]]

\* the identifier of S that has exactly i - 1 identifiers of S before it
Ranked(S, i) == CHOOSE x \in S : Cardinality({ y \in S : LexLess(y, x) }) = i - 1

\* decimal numeral of i, for 1 <= i <= 99
Numeral(i) ==
    IF i < 10 THEN <<Digits[i + 1]>>
    ELSE <<Digits[(i \div 10) + 1], Digits[(i % 10) + 1]>>

\* the lines i..n of the listing of S, one per identifier, numbered
RECURSIVE Listing(_, _, _)
Listing(S, i, n) ==
    LET line == Numeral(i) \o <<".", " ">> \o Ranked(S, i)
    IN  IF i = n THEN line ELSE line \o <<"\n">> \o Listing(S, i + 1, n)

\* C13: for a non-empty set S the result is the line "sources:" followed by
\* one line per identifier, in ascending lexicographic order, numbered
\* 1..|S| without gap or repeat
C13_SortedNumberedListing ==
    (sources_string.type = "str" /\ source_urls # {}) =>
        sources_string.val =
            <<"s", "o", "u", "r", "c", "e", "s", ":", "\n">>
                \o Listing(source_urls, 1, Cardinality(source_urls))

\* a set of ten identifiers, a prefix of another and the empty one among
\* them, was formatted
C13_Witness ==
    /\ sources_string.type = "str"
    /\ Cardinality(source_urls) = 10
    /\ {<<>>, <<"a">>, <<"a", "b">>, Unknown} \subseteq source_urls

\* C14: the result is the empty string exactly when the set is empty
C14_EmptyIffNoSources ==
    sources_string.type = "str" =>
        (sources_string.val = <<>> <=> source_urls = {})

\* the set holding only the empty string was formatted
C14_Witness ==
    /\ sources_string.type = "str"
    /\ source_urls = {<<>>}
    /\ sources_string.val # <<>>

\* the last step was the backend call of an ask
JustCalled == pc = "append_prompt" \/ (pc = "idle" /\ uncaught)

\* the exchanges recorded since the last clear, before the call just made
Prior == IF pc = "append_prompt" THEN SubSeq(asked, 1, Len(asked) - 1) ELSE asked

\* C15: the backend is called with the Turn History as it stood before the
\* exchange: the two entries of each exchange recorded since the last clear,
\* in order, without the current query and answer; empty for the first one
C15_HistoryBeforeExchange ==
    JustCalled =>
        /\ last_call.chat_history = Turns(Prior)
        /\ Len(last_call.chat_history) = 2 * Len(Prior)
        /\ last_call.chat_history = TurnHistory
        /\ Prior = <<>> => last_call.chat_history = <<>>

\* the second ask was called with the entries of the first exchange only
C15_Witness ==
    /\ pc = "append_prompt"
    /\ Len(asked) = 2
    /\ last_call.chat_history =
          << <<"human", PyStr(asked[1].query)>>,
             <<"ai", coerce(answer_of(asked[1].response))>> >>
    /\ last_call.query = asked[2].query

\* C16: an ask that fails in the backend call or in the normalisation of the
\* response changes none of the three logs and leaves whole exchanges only
C16_FailedAskChangesNothing ==
    [][(pc = "prompt" /\ pc' = "idle") =>
          /\ session_state' = session_state
          /\ Len(PromptLog') = Len(AnswerLog')
          /\ Len(TurnHistory') = 2 * Len(PromptLog')]_vars

\* an ask failed in the normalisation after an exchange had been recorded
C16_Witness ==
    /\ pc = "idle"
    /\ uncaught
    /\ ~last_call.outcome.raises
    /\ Len(PromptLog) = 1
    /\ Len(AnswerLog) = 1
    /\ Len(TurnHistory) = 2

\* C17: every Answer Log entry is a string and no message on the page is the
\* error marker
C17_AnswerLogHoldsStrings ==
    /\ \A i \in 1..Len(AnswerLog) : AnswerLog[i].type = "str"
    /\ \A i \in 1..Len(rendered) : rendered[i].assistant.kind = "write"

\* an exchange whose answer came as a nested structure is on the page
C17_Witness ==
    /\ pc = "idle"
    /\ Len(rendered) = 2
    /\ "answer" \in DOMAIN asked[1].response
    /\ asked[1].response["answer"].type = "list"
    /\ rendered[1].assistant.kind = "write"

====
